---- MODULE Spec2Model ----
(***************************************************************************)
(* A model of two stages of the template compiler:                         *)
(*   - transformer/process_expression.rs: the ExpressionProcessor pass     *)
(*     (scope tracking, fast/slow identifier rewriting);                   *)
(*   - codegen.rs: the CodeWriter that emits the render function.          *)
(* Source text is a sequence of one-character strings, so that byte        *)
(* ranges and slices are the ones the code computes.                       *)
(***************************************************************************)
EXTENDS Integers, Sequences, FiniteSets, TLC

VARIABLES
    option,            \* TransformOption: prefix_identifier, inline
    binding_metadata,  \* TransformOption.binding_metadata: name -> BindingTypes
    walk_order,        \* order in which the free-variable walker reports references
    scope,             \* Scope: identifiers introduced by the template
    ir0,               \* the walk items as the converter produced them
    ir,                \* the walk items, rewritten in place
    scopeAt,           \* scopeAt[i]: the scope the hook of item i was given
    pc,                \* index of the next walk item
    status,            \* "running", "done", "panic"
    rw_in,             \* arguments of a direct rewrite_identifier call
    rw_out,            \* its result
    root,              \* BaseRoot handed to generate
    gen,               \* the CodeWriter (sink, counters)
    gen_result         \* what generate returned

tvars == <<option, binding_metadata, walk_order, scope, ir0, ir, scopeAt, pc, status>>
rvars == <<rw_in, rw_out>>
gvars == <<root, gen, gen_result>>
vars == <<tvars, rvars, gvars>>

-----------------------------------------------------------------------------
(* Bounds of the model *)

\* deepest nesting of loop constructs in a template
MaxNest == 2
\* the sink may fail at any write up to this one (0: it never fails)
MaxFailAt == 48
\* most children of the IR root
MaxBody == 3

-----------------------------------------------------------------------------
(* Text *)

IdChars == {"a", "b", "x", "_", "c", "t", "r", "u", "e", "h", "i", "s",
            "M", "q"}

T_a == <<"a">>
T_b == <<"b">>
T_x == <<"x">>
T_true == <<"t", "r", "u", "e">>
T_this == <<"t", "h", "i", "s">>
T_Math == <<"M", "a", "t", "h">>
T_require == <<"r", "e", "q", "u", "i", "r", "e">>
T_ctx == <<"_", "c", "t", "x">>
T_ctx_dot == <<"_", "c", "t", "x", ".">>
T_dot_value == <<".", "v", "a", "l", "u", "e">>
T_props_dot == <<"_", "_", "p", "r", "o", "p", "s", ".">>
\* "a + b"
T_a_plus_b == <<"a", " ", "+", " ", "b">>
\* "_ctx.x"
T_ctx_x == <<"_", "c", "t", "x", ".", "x">>
\* "Math.b + a"
T_Math_b_plus_a == <<"M", "a", "t", "h", ".", "b", " ", "+", " ", "a">>
\* "require + b"
T_require_plus_b == <<"r", "e", "q", "u", "i", "r", "e", " ", "+", " ", "b">>
\* "a +": not an expression
T_bad == <<"a", " ", "+">>
\* "[a]": a destructuring pattern
T_pattern == <<"[", "a", "]">>

RECURSIVE Str(_)
Str(t) == IF t = <<>> THEN "" ELSE Head(t) \o Str(Tail(t))

RECURSIVE Flat(_)
Flat(ss) == IF ss = <<>> THEN <<>> ELSE Head(ss) \o Flat(Tail(ss))

-----------------------------------------------------------------------------
(* VStr, StaticLevel, BindingTypes, JsExpr *)

NotStatic == "NotStatic"
CanSkipPatch == "CanSkipPatch"
CanHoist == "CanHoist"
CanStringify == "CanStringify"
StaticLevel == {NotStatic, CanSkipPatch, CanHoist, CanStringify}

BindingTypes == {"SetupConst", "SetupRef", "SetupMaybeRef", "SetupLet",
                 "Props", "Data", "Options"}
NoBinding == "None"

VStr_raw(t) == [raw |-> t, ops |-> {}]
prefix_ctx(v) == [v EXCEPT !.ops = @ \cup {"CTX_PREFIX"}]
be_js_str(v) == [v EXCEPT !.ops = @ \cup {"JS_STRING"}]
into_string(v) ==
    LET p == IF "CTX_PREFIX" \in v.ops THEN T_ctx_dot \o v.raw ELSE v.raw
    IN IF "JS_STRING" \in v.ops THEN <<"\"">> \o p \o <<"\"">> ELSE p

Src(s) == [kind |-> "Src", s |-> s]
StrLit(v) == [kind |-> "StrLit", v |-> v]
Simple(v, level) == [kind |-> "Simple", v |-> v, level |-> level]
Symbol(h) == [kind |-> "Symbol", h |-> h]
Props(ps) == [kind |-> "Props", ps |-> ps]
Compound(parts) == [kind |-> "Compound", parts |-> parts]
Array(a) == [kind |-> "Array", a |-> a]
Call(h, args) == [kind |-> "Call", h |-> h, args |-> args]
Param(name) == [kind |-> "Param", name |-> name]
\* the place of a child expression that is a walk item of its own
Hole == [kind |-> "Hole"]
\* the program aborted while computing this expression
Panic(why) == [kind |-> "Panic", why |-> why]

simple(v) == Simple(v, NotStatic)

RECURSIVE Panics(_)
Panics(e) ==
    \/ e.kind = "Panic"
    \/ /\ e.kind = "Compound"
       /\ \E i \in 1..Len(e.parts) : Panics(e.parts[i])
    \/ /\ e.kind = "Call"
       /\ \E i \in 1..Len(e.args) : Panics(e.args[i])

-----------------------------------------------------------------------------
(* util: identifiers, allow-list, scope, hoisted assets *)

is_simple_identifier(v) ==
    /\ Len(v.raw) > 0
    /\ \A i \in 1..Len(v.raw) : v.raw[i] \in IdChars

is_global_allow_listed(t) == t \in {T_Math}

is_literal(t) == t \in {T_true, <<"f", "a", "l", "s", "e">>,
                        <<"n", "u", "l", "l">>, T_this}

has_identifier(sc, v) == v.raw \in sc
add_identifier(sc, id) == sc \cup {id}
remove_identifier(sc, id) == sc \ {id}

is_hoisted_asset(e) == e.kind = "Simple" /\ "ASSET" \in e.v.ops

bindings_get(t) ==
    IF t \in DOMAIN binding_metadata THEN binding_metadata[t] ELSE NoBinding

-----------------------------------------------------------------------------
(* The external parser capability: parse_js_expr and walk_free_variables.   *)
(* The expression language is  member (+ member)*  with                     *)
(* member = identifier (. identifier)* ; blanks separate tokens.            *)

RECURSIVE IdEnd(_, _)
\* last index of the run of identifier characters that starts at i
IdEnd(raw, i) ==
    IF i < Len(raw) /\ raw[i + 1] \in IdChars THEN IdEnd(raw, i + 1) ELSE i

RECURSIVE Tokens(_, _)
\* the tokens of raw from index i on; start/end are 0-based byte offsets
Tokens(raw, i) ==
    IF i > Len(raw) THEN <<>>
    ELSE IF raw[i] = " " THEN Tokens(raw, i + 1)
    ELSE IF raw[i] \in IdChars
         THEN LET j == IdEnd(raw, i)
              IN <<[k |-> "id", start |-> i - 1, end |-> j]>> \o Tokens(raw, j + 1)
         ELSE <<[k |-> raw[i], start |-> i - 1, end |-> i]>> \o Tokens(raw, i + 1)

\* Some(ast) / None: the ast is the token sequence of a well-formed expression
parse_js_expr(raw) ==
    LET toks == Tokens(raw, 1)
        ok == /\ Len(toks) % 2 = 1
              /\ \A n \in 1..Len(toks) :
                    IF n % 2 = 1 THEN toks[n].k = "id" ELSE toks[n].k \in {"+", "."}
    IN IF ok THEN [some |-> TRUE, ast |-> toks] ELSE [some |-> FALSE, ast |-> <<>>]

TokText(raw, tok) == SubSeq(raw, tok.start + 1, tok.end)

RECURSIVE Reverse(_)
Reverse(s) == IF s = <<>> THEN <<>> ELSE Reverse(Tail(s)) \o <<Head(s)>>

\* the references the walker visits: identifiers that are not property names
\* and not literal keywords, in the order the walker happens to report them
walk_free_variables(raw, ast) ==
    LET isRef(n) == /\ ast[n].k = "id"
                    /\ (n = 1 \/ ast[n - 1].k # ".")
                    /\ ~is_literal(TokText(raw, ast[n]))
        fwd == SelectSeq([n \in 1..Len(ast) |-> [n |-> n, tok |-> ast[n]]],
                         LAMBDA r : isRef(r.n))
        refs == [m \in 1..Len(fwd) |-> fwd[m].tok]
    IN IF walk_order = "source" THEN refs ELSE Reverse(refs)

-----------------------------------------------------------------------------
(* CtxType and the binding rewrite *)

NoWrite == [t |-> "NoWrite"]
Destructure == [t |-> "Destructure"]
Assign(e) == [t |-> "Assign", e |-> e]
Update(is_pre, op) == [t |-> "Update", is_pre |-> is_pre, op |-> op]

\* rewrite_setup_let putting the update operator after the operand always
rewrite_setup_let_postfix(ctx, expr, dot_value) ==
    CASE ctx.t = "Assign" ->
            Compound(<<Call("IsRef", <<expr>>), Src(<<"?", " ">>), dot_value,
                       ctx.e, Src(<<":", " ">>), expr, ctx.e>>)
      [] ctx.t = "Update" ->
            Compound(<<Call("IsRef", <<expr>>), Src(<<"?", " ">>), dot_value,
                       ctx.op, Src(<<":", " ">>), expr, ctx.op>>)
      [] ctx.t = "Destructure" -> expr
      [] ctx.t = "NoWrite" -> Call("Unref", <<expr>>)

rewrite_setup_let(ctx, expr, dot_value) ==
    CASE ctx.t = "Assign" ->
            Compound(<<Call("IsRef", <<expr>>), Src(<<"?", " ">>), dot_value,
                       ctx.e, Src(<<":", " ">>), expr, ctx.e>>)
      [] ctx.t = "Update" ->
            LET push(val, op) == IF ctx.is_pre THEN <<op, val>> ELSE <<val, op>>
            IN Compound(<<Call("IsRef", <<expr>>), Src(<<"?", " ">>)>>
                        \o push(dot_value, ctx.op)
                        \o <<Src(<<":", " ">>)>>
                        \o push(expr, ctx.op))
      [] ctx.t = "Destructure" -> expr
      [] ctx.t = "NoWrite" -> Call("Unref", <<expr>>)

rewrite_inline_identifier(raw, level, bind, ctx) ==
    IF ~(level = NotStatic \/ bind = "SetupConst") THEN Panic("debug_assert")
    ELSE
    LET expr == Simple(raw, level)
        dot_value == Compound(<<expr, Src(T_dot_value)>>)
    IN CASE bind = "SetupConst" -> expr
         [] bind = "SetupRef" -> dot_value
         [] bind = "SetupMaybeRef" ->
                IF ctx.t # "NoWrite" THEN dot_value ELSE Call("Unref", <<expr>>)
         [] bind = "SetupLet" -> rewrite_setup_let(ctx, expr, dot_value)
         [] bind = "Props" -> Compound(<<Src(T_props_dot), expr>>)
         [] bind \in {"Data", "Options"} -> Compound(<<Src(T_ctx_dot), expr>>)

\* BindingTypes::get_js_prop(name, level): it is given no write context
get_js_prop(bind, raw, level) ==
    LET expr == Simple(raw, level)
    IN CASE bind = "SetupConst" -> expr
         [] bind = "SetupRef" -> Compound(<<expr, Src(T_dot_value)>>)
         [] bind \in {"SetupMaybeRef", "SetupLet"} -> Call("Unref", <<expr>>)
         [] bind = "Props" -> Compound(<<Src(T_props_dot), expr>>)
         [] bind \in {"Data", "Options"} -> Compound(<<Src(T_ctx_dot), expr>>)

\* rewrite_identifier forgetting the _ctx prefix of an unbound name
rewrite_identifier_unprefixed(raw, level, ctx) ==
    LET binding == bindings_get(raw.raw)
    IN IF binding # NoBinding
       THEN IF option.inline
            THEN rewrite_inline_identifier(raw, level, binding, ctx)
            ELSE get_js_prop(binding, raw, level)
       ELSE simple(raw)

rewrite_identifier(raw, level, ctx) ==
    LET binding == bindings_get(raw.raw)
    IN IF binding # NoBinding
       THEN IF option.inline
            THEN rewrite_inline_identifier(raw, level, binding, ctx)
            ELSE get_js_prop(binding, raw, level)
       ELSE IF level # NotStatic THEN Panic("debug_assert")
            ELSE simple(prefix_ctx(raw))

-----------------------------------------------------------------------------
(* The slow path *)

RECURSIVE InsertByStart(_, _)
InsertByStart(sorted, atom) ==
    IF sorted = <<>> THEN <<atom>>
    ELSE IF atom.range.start < Head(sorted).range.start
         THEN <<atom>> \o sorted
         ELSE <<Head(sorted)>> \o InsertByStart(Tail(sorted), atom)

RECURSIVE sort_by_key(_)
\* the stable sort of atoms.sort_by_key(|r| r.range.start)
sort_by_key(atoms) ==
    IF atoms = <<>> THEN <<>>
    ELSE InsertByStart(sort_by_key(SubSeq(atoms, 1, Len(atoms) - 1)),
                       atoms[Len(atoms)])

\* break_down_complex_expression without the sort
break_down_unsorted(raw, sc) ==
    LET expr == parse_js_expr(raw)
    IN IF ~expr.some THEN [panic |-> "todo: add error handler", atoms |-> <<>>]
       ELSE
       LET fvs == walk_free_variables(raw, expr.ast)
           survives(fv) ==
               LET id_text == TokText(raw, fv)
               IN /\ ~(is_global_allow_listed(id_text) \/ id_text = T_require)
                  /\ ~has_identifier(sc, VStr_raw(id_text))
           kept == SelectSeq(fvs, survives)
           atoms == [n \in 1..Len(kept) |->
                        [range |-> [start |-> kept[n].start, end |-> kept[n].end],
                         id_str |-> VStr_raw(TokText(raw, kept[n])),
                         ctx_type |-> NoWrite]]
       IN IF option.inline /\ kept # <<>>
          THEN [panic |-> "todo: inline ctx_type", atoms |-> <<>>]
          ELSE [panic |-> "", atoms |-> atoms]

\* [panic, atoms]: panic is "" when the atoms were computed
break_down_complex_expression(raw, sc) ==
    LET expr == parse_js_expr(raw)
    IN IF ~expr.some THEN [panic |-> "todo: add error handler", atoms |-> <<>>]
       ELSE
       LET fvs == walk_free_variables(raw, expr.ast)
           survives(fv) ==
               LET id_text == TokText(raw, fv)
               IN /\ ~(is_global_allow_listed(id_text) \/ id_text = T_require)
                  /\ ~has_identifier(sc, VStr_raw(id_text))
           kept == SelectSeq(fvs, survives)
           atoms == [n \in 1..Len(kept) |->
                        [range |-> [start |-> kept[n].start, end |-> kept[n].end],
                         id_str |-> VStr_raw(TokText(raw, kept[n])),
                         ctx_type |-> NoWrite]]
       IN IF option.inline /\ kept # <<>>
          THEN [panic |-> "todo: inline ctx_type", atoms |-> <<>>]
          ELSE [panic |-> "", atoms |-> sort_by_key(atoms)]

RECURSIVE reunite_loop(_, _, _, _)
\* the for loop of reunite_atoms, from atom n on
reunite_loop(raw, atoms, n, acc) ==
    IF n > Len(atoms) THEN acc
    ELSE LET range == atoms[n].range
             inner1 == IF acc.last < range.start
                       THEN Append(acc.inner,
                                   Src(SubSeq(raw, acc.last + 1, range.start)))
                       ELSE acc.inner
             rewritten == rewrite_identifier(atoms[n].id_str, NotStatic,
                                             atoms[n].ctx_type)
         IN reunite_loop(raw, atoms, n + 1,
                         [last |-> range.end, inner |-> Append(inner1, rewritten)])

\* reunite_atoms forgetting the source that follows the last atom
reunite_atoms_no_tail(raw, atoms) ==
    Compound(reunite_loop(raw, atoms, 1, [last |-> 0, inner |-> <<>>]).inner)

reunite_atoms(raw, atoms) ==
    LET acc == reunite_loop(raw, atoms, 1, [last |-> 0, inner |-> <<>>])
    IN Compound(IF acc.last < Len(raw)
                THEN Append(acc.inner, Src(SubSeq(raw, acc.last + 1, Len(raw))))
                ELSE acc.inner)

process_with_js_parser(e, sc) ==
    IF e.kind # "Simple" THEN e
    ELSE LET raw == e.v.raw
             broken_atoms == break_down_complex_expression(raw, sc)
         IN IF broken_atoms.panic # "" THEN Panic(broken_atoms.panic)
            ELSE reunite_atoms(raw, broken_atoms.atoms)

-----------------------------------------------------------------------------
(* The fast path and process_expression *)

\* process_expr_fast raising the level of every name that is no genuine
\* binding reference, scope references included
process_expr_fast_scoped(e, sc) ==
    IF e.kind # "Simple" THEN [handled |-> FALSE, e |-> e]
    ELSE IF ~is_simple_identifier(e.v) THEN [handled |-> FALSE, e |-> e]
    ELSE
    LET raw_exp == e.v.raw
        is_scope_reference == has_identifier(sc, e.v)
        is_allowed_global == is_global_allow_listed(raw_exp)
        is_lit == is_literal(raw_exp)
        lvl == IF bindings_get(raw_exp) = "SetupConst" THEN CanSkipPatch
               ELSE e.level
    IN [handled |-> TRUE,
        e |-> IF ~is_scope_reference /\ ~is_allowed_global /\ ~is_lit
              THEN rewrite_identifier(e.v, lvl, NoWrite)
              ELSE [e EXCEPT !.level = IF is_lit THEN CanStringify
                                       ELSE CanHoist]]

\* process_expr_fast relaxing the level for every recorded binding, not for
\* SetupConst alone
process_expr_fast_any_binding(e, sc) ==
    IF e.kind # "Simple" THEN [handled |-> FALSE, e |-> e]
    ELSE IF ~is_simple_identifier(e.v) THEN [handled |-> FALSE, e |-> e]
    ELSE
    LET raw_exp == e.v.raw
        is_scope_reference == has_identifier(sc, e.v)
        is_allowed_global == is_global_allow_listed(raw_exp)
        is_lit == is_literal(raw_exp)
        lvl == IF bindings_get(raw_exp) # NoBinding THEN CanSkipPatch
               ELSE e.level
    IN [handled |-> TRUE,
        e |-> IF ~is_scope_reference /\ ~is_allowed_global /\ ~is_lit
              THEN rewrite_identifier(e.v, lvl, NoWrite)
              ELSE IF ~is_scope_reference
                   THEN [e EXCEPT !.level = IF is_lit THEN CanStringify
                                            ELSE CanHoist]
                   ELSE e]

\* [handled, e]: the bool process_expr_fast returns and the expression it leaves
process_expr_fast(e, sc) ==
    IF e.kind # "Simple" THEN [handled |-> FALSE, e |-> e]
    ELSE IF ~is_simple_identifier(e.v) THEN [handled |-> FALSE, e |-> e]
    ELSE
    LET raw_exp == e.v.raw
        is_scope_reference == has_identifier(sc, e.v)
        is_allowed_global == is_global_allow_listed(raw_exp)
        is_lit == is_literal(raw_exp)
        lvl == IF bindings_get(raw_exp) = "SetupConst" THEN CanSkipPatch
               ELSE e.level
    IN [handled |-> TRUE,
        e |-> IF ~is_scope_reference /\ ~is_allowed_global /\ ~is_lit
              THEN rewrite_identifier(e.v, lvl, NoWrite)
              ELSE IF ~is_scope_reference
                   THEN [e EXCEPT !.level = IF is_lit THEN CanStringify
                                            ELSE CanHoist]
                   ELSE e]

\* process_expression without the hoisted-asset test
process_expression_assets_too(e, sc) ==
    IF ~option.prefix_identifier THEN e
    ELSE IF e.kind # "Simple" THEN e
    ELSE LET fast == process_expr_fast(e, sc)
         IN IF fast.handled THEN fast.e ELSE process_with_js_parser(e, sc)

process_expression(e, sc) ==
    IF ~option.prefix_identifier THEN e
    ELSE IF is_hoisted_asset(e) THEN e
    ELSE IF e.kind # "Simple" THEN e
    ELSE LET fast == process_expr_fast(e, sc)
         IN IF fast.handled THEN fast.e ELSE process_with_js_parser(e, sc)

-----------------------------------------------------------------------------
(* Function parameters: enter_fn_param / exit_fn_param *)

\* the identifiers of the Js::Param parts; a part of another kind than
\* Param, Src and Simple is illegal
only_param_ids(ids) ==
    LET legal == \A n \in 1..Len(ids) : ids[n].kind \in {"Param", "Src", "Simple"}
        ps == SelectSeq(ids, LAMBDA id : id.kind = "Param")
    IN [panic |-> IF legal THEN "" ELSE "Illegal sub expr kind in param.",
        ids |-> [n \in 1..Len(ps) |-> ps[n].name]]

\* "" when process_fn_param returns, else the reason it aborts
process_fn_param(p) ==
    IF p.kind # "Param" THEN "cast: not Js::Param"
    ELSE IF is_simple_identifier(VStr_raw(p.name)) THEN ""
    ELSE "todo: binding pattern"

RECURSIVE add_all(_, _)
add_all(sc, ids) ==
    IF ids = <<>> THEN sc ELSE add_all(add_identifier(sc, Head(ids)), Tail(ids))

RECURSIVE remove_all(_, _)
remove_all(sc, ids) ==
    IF ids = <<>> THEN sc
    ELSE remove_all(remove_identifier(sc, Head(ids)), Tail(ids))

\* [panic, scope]
enter_fn_param(p, shared) ==
    IF process_fn_param(p) # ""
    THEN [panic |-> process_fn_param(p), scope |-> shared]
    ELSE CASE p.kind = "Param" ->
                [panic |-> "", scope |-> add_identifier(shared, p.name)]
           [] p.kind = "Compound" ->
                [panic |-> only_param_ids(p.parts).panic,
                 scope |-> add_all(shared, only_param_ids(p.parts).ids)]
           [] OTHER -> [panic |-> "only Js::Param is legal", scope |-> shared]

exit_fn_param(p, shared) ==
    CASE p.kind = "Param" ->
            [panic |-> "", scope |-> remove_identifier(shared, p.name)]
      [] p.kind = "Compound" ->
            [panic |-> only_param_ids(p.parts).panic,
             scope |-> remove_all(shared, only_param_ids(p.parts).ids)]
      [] OTHER -> [panic |-> "only Js::Param is legal", scope |-> shared]

exit_js_expr(e, shared) == process_expression(e, shared)

-----------------------------------------------------------------------------
(* The IR handed to the pass, as the depth-first sequence of hook calls     *)
(* the pass framework makes on it.  A structural expression is visited      *)
(* after its children, which are items of their own.                        *)

JsItem(e, site) == [ev |-> "js", e |-> e, site |-> site, back |-> 0]
EnterItem(p) == [ev |-> "enter", e |-> p, site |-> "param", back |-> 0]
\* back: distance to the matching enter item, whose parameter this hook is given
ExitItem(n) == [ev |-> "exit", e |-> Hole, site |-> "param", back |-> n]

T_test == <<"t", "e", "s", "t">>

\* {{t}}, <p :test='t'/>, <p v-bind='t'/>
Leaf(site, t) ==
    CASE site = "interp" ->
            <<JsItem(simple(VStr_raw(t)), "interp"),
              JsItem(Call("ToDisplayString", <<Hole>>), "call")>>
      [] site = "prop_value" ->
            <<JsItem(StrLit(VStr_raw(T_test)), "prop_key"),
              JsItem(simple(VStr_raw(t)), "prop_value"),
              JsItem(Props(<<<<Hole, Hole>>>>), "props")>>
      [] site = "v_bind" ->
            <<JsItem(simple(VStr_raw(t)), "v_bind")>>

\* a resolved component: its hoisted-asset lookup and the other variants
Structural ==
    <<JsItem(Simple([raw |-> T_x, ops |-> {"ASSET"}], NotStatic), "asset"),
      JsItem(Src(T_a), "src"),
      JsItem(Symbol("Fragment"), "symbol"),
      JsItem(Compound(<<Hole, Src(T_a)>>), "compound"),
      JsItem(Array(<<Hole>>), "array"),
      JsItem(Param(T_a), "param_expr")>>

RECURSIVE Loop(_, _, _)
\* <p v-for='ps[1] in src'> <p v-for='ps[2] in src'> ... body
Loop(ps, src, body) ==
    IF ps = <<>> THEN body
    ELSE LET inner == Loop(Tail(ps), src, body)
         IN <<JsItem(simple(VStr_raw(src)), "for_source"),
              EnterItem(Param(Head(ps)))>>
            \o inner \o <<ExitItem(Len(inner) + 1)>>

\* <p v-for='p in src'> inner </p>: the parameter hooks around a subtree
Bracket(p, src, inner) ==
    <<JsItem(simple(VStr_raw(src)), "for_source"), EnterItem(p)>>
    \o inner \o <<ExitItem(Len(inner) + 1)>>

\* <p v-for='p1 in b'> {{t}} <p v-for='p2 in b'> {{t}} </p> {{t}} </p> {{t}}
Nested(p1, p2, t) ==
    Bracket(Param(p1), T_b,
            Leaf("interp", t)
            \o Bracket(Param(p2), T_b, Leaf("interp", t))
            \o Leaf("interp", t))
    \o Leaf("interp", t)

\* the parameter [a = _ctx.x] already broken down: a marker, raw slices and
\* a prefixed default value
PatternParam ==
    Compound(<<Src(<<"[">>), Param(T_a), Src(<<" ", "=", " ">>),
               simple(prefix_ctx(VStr_raw(T_x))), Src(<<"]">>)>>)

LeafTexts == {T_a, T_b, T_true, T_this, T_Math, T_a_plus_b, T_ctx_x,
              T_Math_b_plus_a, T_require_plus_b, T_bad}
BodyTexts == {T_a, T_b, T_a_plus_b, T_Math_b_plus_a, T_ctx_x}
Sites == {"interp", "prop_value", "v_bind"}
ParamNames == {T_a, T_b}

Templates ==
    {Leaf(site, t) : site \in Sites, t \in LeafTexts}
    \cup {Structural}
    \cup {Loop(<<T_pattern>>, T_b, Leaf("interp", T_a))}
    \cup {Loop(<<T_Math>>, T_b, Leaf("interp", T_Math))}
    \cup {Bracket(PatternParam, T_b, Leaf("interp", T_a))}
    \cup {Nested(p1, p2, t) : p1 \in ParamNames, p2 \in ParamNames,
                              t \in {T_a, T_a_plus_b}}
    \cup UNION {
           { Loop(ps, src, Leaf("interp", t)) \o tail :
               ps \in [1..d -> ParamNames], src \in ParamNames,
               t \in BodyTexts, tail \in {<<>>, Leaf("interp", T_a)} }
           : d \in 1..MaxNest }

BindingTables ==
    {<<>>} \cup
    { [n \in {T_a} |-> k] : k \in BindingTypes } \cup
    { [n \in {T_a, T_b} |-> IF n = T_a THEN k ELSE "Props"] :
        k \in {"SetupConst", "SetupRef"} }

Options == [prefix_identifier : BOOLEAN, inline : BOOLEAN]

-----------------------------------------------------------------------------
(* The transform walk *)

IdleT ==
    /\ walk_order = "source"
    /\ scope = {}
    /\ ir0 = <<>>
    /\ ir = <<>>
    /\ scopeAt = <<>>
    /\ pc = 1
    /\ status = "idle"

NoCall == [raw |-> VStr_raw(<<>>), level |-> NotStatic, ctx |-> NoWrite]
NoResult == [kind |-> "NoResult"]

IdleR == rw_in = NoCall /\ rw_out = NoResult

IdleG ==
    /\ root = [body |-> <<>>]
    /\ gen = [buf |-> <<>>]
    /\ gen_result = [kind |-> "Idle"]

InitT ==
    /\ option \in Options
    /\ binding_metadata \in BindingTables
    /\ walk_order \in {"source", "reverse"}
    /\ scope = {}
    /\ ir0 \in Templates
    /\ ir = ir0
    /\ scopeAt = <<>>
    /\ pc = 1
    /\ status = "running"
    /\ IdleR
    /\ IdleG

Advance == IF pc + 1 > Len(ir) THEN "done" ELSE "running"

ExitJsExpr ==
    /\ status = "running"
    /\ ir[pc].ev = "js"
    /\ LET e == exit_js_expr(ir[pc].e, scope)
       IN IF Panics(e)
          THEN /\ status' = "panic"
               /\ UNCHANGED <<ir, pc>>
          ELSE /\ ir' = [ir EXCEPT ![pc].e = e]
               /\ pc' = pc + 1
               /\ status' = Advance
    /\ scopeAt' = Append(scopeAt, scope)
    /\ UNCHANGED <<option, binding_metadata, walk_order, scope, ir0, rvars, gvars>>

EnterFnParam ==
    /\ status = "running"
    /\ ir[pc].ev = "enter"
    /\ LET r == enter_fn_param(ir[pc].e, scope)
       IN IF r.panic # ""
          THEN /\ status' = "panic"
               /\ UNCHANGED <<scope, pc>>
          ELSE /\ scope' = r.scope
               /\ pc' = pc + 1
               /\ status' = Advance
    /\ scopeAt' = Append(scopeAt, scope)
    /\ UNCHANGED <<option, binding_metadata, walk_order, ir0, ir, rvars, gvars>>

ExitFnParam ==
    /\ status = "running"
    /\ ir[pc].ev = "exit"
    /\ LET r == exit_fn_param(ir[pc - ir[pc].back].e, scope)
       IN IF r.panic # ""
          THEN /\ status' = "panic"
               /\ UNCHANGED <<scope, pc>>
          ELSE /\ scope' = r.scope
               /\ pc' = pc + 1
               /\ status' = Advance
    /\ scopeAt' = Append(scopeAt, scope)
    /\ UNCHANGED <<option, binding_metadata, walk_order, ir0, ir, rvars, gvars>>

NextT == ExitJsExpr \/ EnterFnParam \/ ExitFnParam

SpecT == InitT /\ [][NextT]_vars

-----------------------------------------------------------------------------
(* Direct calls of rewrite_identifier, with every write context *)

T_assign == <<" ", "=", " ", "x">>
T_incr == <<"+", "+">>

CtxTypes == {NoWrite, Destructure, Assign(Src(T_assign)),
             Update(TRUE, Src(T_incr)), Update(FALSE, Src(T_incr))}

InitR ==
    /\ option \in {o \in Options : o.prefix_identifier}
    /\ binding_metadata \in BindingTables
    /\ rw_in \in [raw : {VStr_raw(T_a), VStr_raw(T_b)},
                  level : {NotStatic, CanSkipPatch},
                  ctx : CtxTypes]
    \* the callers' obligation, asserted at lines 117 and 221
    /\ rw_in.level = NotStatic \/ bindings_get(rw_in.raw.raw) = "SetupConst"
    /\ rw_out = NoResult
    /\ IdleT
    /\ IdleG

RewriteIdentifier ==
    /\ rw_in # NoCall
    /\ rw_out = NoResult
    /\ rw_out' = rewrite_identifier(rw_in.raw, rw_in.level, rw_in.ctx)
    /\ UNCHANGED <<tvars, rw_in, gvars>>

NextR == RewriteIdentifier

SpecR == InitR /\ [][NextR]_vars

-----------------------------------------------------------------------------
(* Reading the walk *)

\* the hook of item i was called
Invoked(i) == i \in 1..Len(scopeAt)
\* ... and returned
Completed(i) == Invoked(i) /\ i < pc

RECURSIVE JoinArgs(_)
RECURSIVE Text(_)
\* the text generate_js_expr writes for an expression
Text(e) ==
    CASE e.kind = "Src" -> e.s
      [] e.kind = "StrLit" -> into_string(be_js_str(e.v))
      [] e.kind = "Simple" -> into_string(e.v)
      [] e.kind = "Symbol" -> <<"_", e.h>>
      [] e.kind = "Compound" -> Flat([n \in 1..Len(e.parts) |-> Text(e.parts[n])])
      [] e.kind = "Call" -> <<"_", e.h, "(">> \o JoinArgs(e.args) \o <<")">>
      [] OTHER -> <<>>
JoinArgs(args) ==
    IF args = <<>> THEN <<>>
    ELSE IF Len(args) = 1 THEN Text(args[1])
    ELSE Text(args[1]) \o <<",", " ">> \o JoinArgs(Tail(args))

NoBlanks(t) == SelectSeq(t, LAMBDA c : c # " ")

Contains(t, pat) ==
    \E k \in 0..(Len(t) - Len(pat)) : SubSeq(t, k + 1, k + Len(pat)) = pat

RECURSIVE Simples(_)
\* the simple expressions inside an expression
Simples(e) ==
    CASE e.kind = "Simple" -> {e}
      [] e.kind = "Compound" -> UNION {Simples(e.parts[n]) : n \in 1..Len(e.parts)}
      [] e.kind = "Call" -> UNION {Simples(e.args[n]) : n \in 1..Len(e.args)}
      [] OTHER -> {}

\* item i is a user expression the pass sees with rewriting switched on
Seen(i) ==
    /\ Invoked(i)
    /\ ir0[i].ev = "js"
    /\ option.prefix_identifier
    /\ ir0[i].e.kind = "Simple"
    /\ ~is_hoisted_asset(ir0[i].e)

FastItem(i) == Seen(i) /\ is_simple_identifier(ir0[i].e.v)
SlowItem(i) == Seen(i) /\ ~is_simple_identifier(ir0[i].e.v)

\* a bare identifier that is a genuine binding reference
Genuine(i) ==
    /\ FastItem(i)
    /\ ir0[i].e.v.raw \notin scopeAt[i]
    /\ ~is_global_allow_listed(ir0[i].e.v.raw)
    /\ ~is_literal(ir0[i].e.v.raw)

\* the surviving references of a parseable text, in ascending source offset
Survivors(raw, sc) ==
    LET toks == Tokens(raw, 1)
        keep(n) == /\ toks[n].k = "id"
                   /\ (n = 1 \/ toks[n - 1].k # ".")
                   /\ ~is_literal(TokText(raw, toks[n]))
                   /\ ~is_global_allow_listed(TokText(raw, toks[n]))
                   /\ TokText(raw, toks[n]) # T_require
                   /\ TokText(raw, toks[n]) \notin sc
        idx == SelectSeq([n \in 1..Len(toks) |-> n], keep)
    IN [m \in 1..Len(idx) |-> toks[idx[m]]]

\* the text a slow-path result stands for: each rewritten part replaced by
\* the name it was made from
SourceOf(e) ==
    Flat([n \in 1..Len(e.parts) |->
            IF e.parts[n].kind = "Src" THEN e.parts[n].s
            ELSE (CHOOSE x \in Simples(e.parts[n]) : TRUE).v.raw])

-----------------------------------------------------------------------------
(* Claims about the expression processor *)

\* C2: with prefix_identifier enabled, a bare identifier that is not in
\* scope, not allow-listed, not a literal keyword and has no binding entry is
\* rewritten to the simple expression _ctx.<name> with level NotStatic, at
\* every site (interpolation, bound prop value, v-bind object, loop source).
C2_UnboundIdentifierPrefixed ==
    \A i \in 1..Len(scopeAt) :
        (Genuine(i) /\ bindings_get(ir0[i].e.v.raw) = NoBinding) =>
            /\ Completed(i)
            /\ ir[i].e = Simple(prefix_ctx(ir0[i].e.v), NotStatic)
            /\ Text(ir[i].e) = T_ctx_dot \o ir0[i].e.v.raw

\* a loop source and an interpolation of the same walk were both prefixed
C2_Witness ==
    \E i, j \in 1..Len(scopeAt) :
        /\ ir0[i].site = "for_source" /\ ir0[j].site = "interp"
        /\ Genuine(i) /\ Genuine(j)
        /\ bindings_get(ir0[i].e.v.raw) = NoBinding
        /\ bindings_get(ir0[j].e.v.raw) = NoBinding
        /\ Completed(i) /\ Completed(j)
        /\ Text(ir[j].e) = T_ctx_dot \o T_b

\* C4: an identifier that is in the template scope when it is processed keeps
\* its text and its level, on the fast path and on the slow path; the declared
\* parameter stays a parameter marker, and the loop source, visited before the
\* parameter is declared, is prefixed.
C4_ScopeReferenceUntouched ==
    /\ \A i \in 1..Len(scopeAt) :
          (FastItem(i) /\ ir0[i].e.v.raw \in scopeAt[i]) =>
              Completed(i) /\ ir[i].e = ir0[i].e
    /\ \A i \in 1..Len(scopeAt) :
          (SlowItem(i) /\ Completed(i)) =>
              /\ ir[i].e.kind = "Compound"
              /\ SourceOf(ir[i].e) = ir0[i].e.v.raw
              /\ \A x \in Simples(ir[i].e) : x.v.raw \notin scopeAt[i]
    /\ \A i \in 1..Len(scopeAt) :
          (Completed(i) /\ ir0[i].ev = "enter") =>
              /\ ir[i].e.kind = "Param"
              /\ ir[i].e = ir0[i].e
              /\ scopeAt[i - 1] = scopeAt[i]
              /\ (Genuine(i - 1) /\ bindings_get(ir0[i - 1].e.v.raw) = NoBinding)
                    => Text(ir[i - 1].e) = T_ctx_dot \o ir0[i - 1].e.v.raw

\* 'a in a' around {{a + b}}: the source a was prefixed, the parameter a is
\* still a marker, and the a of the body stayed in a raw slice
C4_Witness ==
    \E i, j \in 1..Len(scopeAt) :
        /\ Completed(i) /\ ir0[i].ev = "enter" /\ ir0[i].e = Param(T_a)
        /\ Genuine(i - 1) /\ ir0[i - 1].e.v.raw = T_a
        /\ Text(ir[i - 1].e) = T_ctx_dot \o T_a
        /\ SlowItem(j) /\ Completed(j) /\ ir0[j].e.v.raw = T_a_plus_b
        /\ T_a \in scopeAt[j] /\ T_b \notin scopeAt[j]
        /\ ir[j].e.parts[1] = Src(<<"a", " ", "+", " ">>)

SlowPathAborts ==
    \A i \in 1..Len(scopeAt) :
        SlowItem(i) =>
            (Completed(i) <=>
                /\ parse_js_expr(ir0[i].e.v.raw).some
                /\ ~(option.inline /\ Survivors(ir0[i].e.v.raw, scopeAt[i]) # <<>>))

C7_NoOpCases ==
    \A i \in 1..Len(scopeAt) :
        (/\ ir0[i].ev = "js"
         /\ \/ ~option.prefix_identifier
            \/ is_hoisted_asset(ir0[i].e)
            \/ ir0[i].e.kind # "Simple") =>
            /\ Completed(i)
            /\ ir[i].e = ir0[i].e
            /\ i < Len(scopeAt) => scopeAt[i + 1] = scopeAt[i]
            /\ i = Len(scopeAt) => scope = scopeAt[i]

\* rewriting enabled: the asset lookup and every structural variant of the
\* resolved-component template went through the hook
C7_Witness ==
    /\ option.prefix_identifier
    /\ status = "done"
    /\ ir0 = Structural
    /\ ir = ir0

\* C9: a text the parser rejects ends the compilation in a failure result
\* that carries a diagnostic.
C9_ParseFailureSurfaced ==
    \A i \in 1..Len(scopeAt) :
        (SlowItem(i) /\ ~parse_js_expr(ir0[i].e.v.raw).some) =>
            status = "failed"

-----------------------------------------------------------------------------
(* Claims about the scope *)

\* the enter item an exit item closes
EnterOf(j) == j - ir0[j].back
\* the exit item that closes enter item i
ExitOf(i) == CHOOSE j \in (i + 1)..Len(ir0) :
                ir0[j].ev = "exit" /\ EnterOf(j) = i
\* the identifiers a parameter declares
Declared(p) ==
    IF p.kind = "Param" THEN {p.name}
    ELSE IF p.kind = "Compound"
    THEN {p.parts[n].name :
            n \in {m \in 1..Len(p.parts) : p.parts[m].kind = "Param"}}
    ELSE {}
\* the scope the hook of item i left behind
ScopeAfter(i) == IF i < Len(scopeAt) THEN scopeAt[i + 1] ELSE scope

ScopeBracketingFreshNames ==
    \A i \in 1..Len(scopeAt) :
        (/\ ir0[i].ev = "enter" /\ Completed(i)
         /\ Declared(ir0[i].e) \cap scopeAt[i] = {}
         /\ \A n \in (i + 1)..ExitOf(i) :
               ir0[n].ev = "enter" =>
                   Declared(ir0[n].e) \cap Declared(ir0[i].e) = {}) =>
            /\ \A k \in (i + 1)..ExitOf(i) :
                  Invoked(k) => Declared(ir0[i].e) \subseteq scopeAt[k]
            /\ Completed(ExitOf(i)) => ScopeAfter(ExitOf(i)) = scopeAt[i]

\* a parameter that is not a single bare name
IsPattern(p) == p.kind # "Param" \/ ~is_simple_identifier(VStr_raw(p.name))

\* C15: enter_fn_param given a parameter that is not a single bare name adds
\* every parameter marker of the pattern to the scope and no default-value
\* sub-expression; exit_fn_param removes the identifiers of its parameter;
\* no other hook changes the scope.
C15_PatternRegistration ==
    /\ \A i \in 1..Len(scopeAt) :
          (ir0[i].ev = "enter" /\ IsPattern(ir0[i].e)) =>
              /\ Completed(i)
              /\ ScopeAfter(i) = scopeAt[i] \cup Declared(ir0[i].e)
    /\ \A j \in 1..Len(scopeAt) :
          (ir0[j].ev = "exit" /\ Completed(j)) =>
              ScopeAfter(j) = scopeAt[j] \ Declared(ir0[EnterOf(j)].e)
    /\ \A k \in 1..Len(scopeAt) :
          (ir0[k].ev = "js" /\ Completed(k)) => ScopeAfter(k) = scopeAt[k]

\* what holds: a single bare name is added by enter_fn_param and removed by
\* exit_fn_param, no other hook changes the scope, and enter_fn_param never
\* returns for a parameter that is not a single bare name
ScopeChangesOnlyAtParams ==
    \A i \in 1..Len(scopeAt) :
        /\ (ir0[i].ev = "enter" /\ IsPattern(ir0[i].e)) => ~Completed(i)
        /\ (ir0[i].ev = "enter" /\ Completed(i)) =>
              ScopeAfter(i) = scopeAt[i] \cup {ir0[i].e.name}
        /\ (ir0[i].ev = "exit" /\ Completed(i)) =>
              ScopeAfter(i) = scopeAt[i] \ {ir0[EnterOf(i)].e.name}
        /\ (ir0[i].ev = "js" /\ Completed(i)) => ScopeAfter(i) = scopeAt[i]

-----------------------------------------------------------------------------
(* Claims about the binding rewrite *)

HelperCall(h, arg) == <<"_", h, "(">> \o arg \o <<")">>

\* the rewrite table of the specification, as text
RewriteTable(k, ctx, v) ==
    LET op == IF ctx.t = "Assign" THEN ctx.e.s
              ELSE IF ctx.t = "Update" THEN ctx.op.s ELSE <<>>
        pre == IF ctx.t = "Update" /\ ctx.is_pre THEN op ELSE <<>>
        post == IF ctx.t = "Assign" \/ (ctx.t = "Update" /\ ~ctx.is_pre)
                THEN op ELSE <<>>
    IN CASE k = "SetupConst" -> v
         [] k = "SetupRef" -> v \o T_dot_value
         [] k = "SetupMaybeRef" ->
                IF ctx.t = "NoWrite" THEN HelperCall("Unref", v)
                ELSE v \o T_dot_value
         [] k = "SetupLet" ->
                IF ctx.t = "NoWrite" THEN HelperCall("Unref", v)
                ELSE IF ctx.t = "Destructure" THEN v
                ELSE HelperCall("IsRef", v) \o <<"?">>
                     \o pre \o v \o T_dot_value \o post \o <<":">>
                     \o pre \o v \o post
         [] k = "Props" -> T_props_dot \o v
         [] k \in {"Data", "Options"} -> T_ctx_dot \o v

Called == rw_out # NoResult
CalledBound == Called /\ bindings_get(rw_in.raw.raw) # NoBinding

-----------------------------------------------------------------------------
(* codegen.rs: the CodeWriter.  A writer value g carries the sink (buf, the  *)
(* writes attempted, the write at which the sink fails), the two counters    *)
(* and the io::Result of the call that produced it: err is "" for Ok(()).    *)

Ok(g) == g.err = "" /\ g.panic = ""
Abort(g, why) == [g EXCEPT !.panic = why]

\* the ? operator: the call before it produced g; go on with F when that is
\* Ok(()), return it otherwise
Try(g, F(_)) == CHOOSE r \in {IF Ok(x) THEN F(x) ELSE x : x \in {g}} : TRUE

\* io::Write::write_all on the sink
write_all(g, s) ==
    IF g.attempts + 1 = g.fail_at
    THEN [g EXCEPT !.attempts = @ + 1, !.err = g.sink_error]
    ELSE [g EXCEPT !.attempts = @ + 1, !.buf = Append(@, s)]

write_str(g, s) == write_all(g, s)

helper_str(h) == h

write_helper(g, h) ==
    Try(write_str(g, "_"), LAMBDA x : write_str(x, helper_str(h)))

\* VStr::write_to
write_to(g, v) == write_all(g, Str(into_string(v)))

RECURSIVE write_indents(_, _)
\* for _ in 0..indent_level { write_str("  ")? }, n rounds left
write_indents(g, n) ==
    IF n = 0 THEN g
    ELSE Try(write_str(g, "  "), LAMBDA x : write_indents(x, n - 1))

newline(g) ==
    Try(write_str(g, "\n"), LAMBDA x : write_indents(x, x.indent_level))

indent(g) == newline([g EXCEPT !.indent_level = @ + 1])

deindent(g, with_new_line) ==
    IF g.indent_level = 0 THEN Abort(g, "attempt to subtract with overflow")
    ELSE IF with_new_line THEN newline([g EXCEPT !.indent_level = @ - 1])
    ELSE [g EXCEPT !.indent_level = @ - 1]

generate_preamble(g) == write_str(g, "return ")

generate_function_signature(g) ==
    Try(write_str(g, "function render(_ctx, _cache) {"),
        LAMBDA x : indent([x EXCEPT !.closing_brackets = @ + 1]))

\* generate_with_block opening its brace without counting it
generate_with_block_uncounted(g) ==
    Try(write_str(g, "with (_ctx) {"), indent)

generate_with_block(g) ==
    Try(write_str(g, "with (_ctx) {"),
        LAMBDA x : indent([x EXCEPT !.closing_brackets = @ + 1]))

generate_assets(g) == g

generate_prologue(g, r) ==
    Try(Try(Try(Try(generate_preamble(g),
                    generate_function_signature),
                generate_with_block),
            generate_assets),
        LAMBDA x : write_str(x, "return "))

RECURSIVE epilogue_loop(_, _)
\* for _ in 0..self.closing_brackets, n rounds left
epilogue_loop(g, n) ==
    IF n = 0 THEN g
    ELSE Try(Try(deindent(g, TRUE),
                 LAMBDA x : write_str(x, "}")),
             LAMBDA x : epilogue_loop(x, n - 1))

generate_epilogue(g) ==
    Try(epilogue_loop(g, g.closing_brackets),
        LAMBDA x : IF x.indent_level # 0
                   THEN Abort(x, "debug_assert_eq indent_level")
                   ELSE x)

-----------------------------------------------------------------------------
(* IR nodes and their emission *)

NoneJs == [kind |-> "None"]

TextCall(texts) == [type |-> "TextCall", texts |-> texts]
VNodeCall(v) == [type |-> "VNodeCall", v |-> v]
Stub(type) == [type |-> type]

\* VNodeIR::default()
VNodeIR_default ==
    [tag |-> NoneJs, props |-> NoneJs, children |-> <<>>, directives |-> <<>>,
     patch_flag |-> 0, dynamic_props |-> <<>>,
     is_component |-> FALSE, is_block |-> FALSE, disable_tracking |-> FALSE]

\* {:?} of a PatchFlag
patch_flag_debug(f) == IF f = 1 THEN "TEXT" ELSE "PatchFlag(" \o ToString(f) \o ")"

RECURSIVE generate_js_expr(_, _)
RECURSIVE gen_list_rest(_, _)
RECURSIVE gen_each_js(_, _)
RECURSIVE generate_ir(_, _)
RECURSIVE gen_children(_, _)

\* for e in exprs { write_str(", ")?; generate_js_expr(e)?; }
gen_list_rest(g, exprs) ==
    IF exprs = <<>> THEN g
    ELSE Try(Try(write_str(g, ", "),
                 LAMBDA x : generate_js_expr(x, Head(exprs))),
             LAMBDA x : gen_list_rest(x, Tail(exprs)))

gen_list(g, exprs) ==
    IF exprs = <<>> THEN g
    ELSE Try(generate_js_expr(g, Head(exprs)),
             LAMBDA x : gen_list_rest(x, Tail(exprs)))

\* for e in v { generate_js_expr(e)?; }
gen_each_js(g, v) ==
    IF v = <<>> THEN g
    ELSE Try(generate_js_expr(g, Head(v)),
             LAMBDA x : gen_each_js(x, Tail(v)))

generate_js_expr(g, expr) ==
    CASE expr.kind = "Src" -> write_str(g, Str(expr.s))
      [] expr.kind = "StrLit" -> write_to(g, be_js_str(expr.v))
      [] expr.kind = "Simple" -> write_to(g, expr.v)
      [] expr.kind = "Symbol" -> write_helper(g, expr.h)
      [] expr.kind = "Props" -> Abort(g, "todo: Js::Props")
      [] expr.kind = "Compound" -> gen_each_js(g, expr.parts)
      [] expr.kind = "Array" ->
            Try(Try(write_str(g, "["),
                    LAMBDA x : gen_list(x, expr.a)),
                LAMBDA x : write_str(x, "]"))
      [] expr.kind = "Call" ->
            Try(Try(Try(write_helper(g, expr.h),
                        LAMBDA x : write_str(x, "(")),
                    LAMBDA x : gen_list(x, expr.args)),
                LAMBDA x : write_str(x, ")"))
      [] OTHER -> Abort(g, "no such JsExpr")

RECURSIVE gen_text_rest(_, _)
\* for t in texts { write_str(" + ")?; generate_js_expr(t)?; }
gen_text_rest(g, texts) ==
    IF texts = <<>> THEN g
    ELSE Try(Try(write_str(g, " + "),
                 LAMBDA x : generate_js_expr(x, Head(texts))),
             LAMBDA x : gen_text_rest(x, Tail(texts)))

generate_text(g, t) ==
    IF t = <<>> THEN g
    ELSE Try(generate_js_expr(g, Head(t)),
             LAMBDA x : gen_text_rest(x, Tail(t)))

runtime_dirs_to_js_arr(dirs) == Panic("todo: runtime_dirs_to_js_arr")

\* pass 1 of gen_vnode_args!: the last index to write, j counting from 1
RECURSIVE gen_vnode_args_last(_, _, _)
gen_vnode_args_last(conds, j, i) ==
    IF j >= Len(conds) THEN i
    ELSE gen_vnode_args_last(conds, j + 1, IF conds[j + 1] THEN j + 1 ELSE i)

\* write!(gen.writer, "{} /*{:?}*/", patch_flag.bits(), patch_flag)
write_patch_flag(g, f) ==
    Try(Try(Try(write_all(g, ToString(f)),
                LAMBDA x : write_all(x, " /*")),
            LAMBDA x : write_all(x, patch_flag_debug(f))),
        LAMBDA x : write_all(x, "*/"))

\* for child in children { gen.generate_ir(child)?; }
gen_children(g, children) ==
    IF children = <<>> THEN g
    ELSE Try(generate_ir(g, Head(children)),
             LAMBDA x : gen_children(x, Tail(children)))

\* the generation block of slot j (0-based) of gen_vnode_call_args
gen_vnode_slot(g, v, j) ==
    CASE j = 0 -> generate_js_expr(g, v.tag)
      [] j = 1 -> generate_js_expr(g, v.props)
      [] j = 2 -> gen_children(g, v.children)
      [] j = 3 -> write_patch_flag(g, v.patch_flag)
      [] j = 4 -> generate_js_expr(g,
                     Array([n \in 1..Len(v.dynamic_props) |->
                              StrLit(v.dynamic_props[n])]))

\* the conditions of gen_vnode_call_args, in slot order
vnode_conds(v) ==
    <<TRUE, v.props # NoneJs, v.children # <<>>, v.patch_flag # 0,
      v.dynamic_props # <<>>>>

RECURSIVE gen_vnode_args_trailing(_, _, _, _)
\* pass 2 filling null up to and including the slot after the last one
gen_vnode_args_trailing(g, v, i, j) ==
    IF j >= Len(vnode_conds(v)) THEN g
    ELSE IF vnode_conds(v)[j + 1]
    THEN Try(Try(IF j > 0 THEN write_str(g, ", ") ELSE g,
                 LAMBDA x : gen_vnode_slot(x, v, j)),
             LAMBDA x : gen_vnode_args_trailing(x, v, i, j + 1))
    ELSE IF i >= j
    THEN Try(write_str(g, ", null"),
             LAMBDA x : gen_vnode_args_trailing(x, v, i, j + 1))
    ELSE g

RECURSIVE gen_vnode_args_write(_, _, _, _)
\* pass 2 of gen_vnode_args!, from slot j (0-based) on; i is pass 1's result
gen_vnode_args_write(g, v, i, j) ==
    IF j >= Len(vnode_conds(v)) THEN g
    ELSE IF vnode_conds(v)[j + 1]
    THEN Try(Try(IF j > 0 THEN write_str(g, ", ") ELSE g,
                 LAMBDA x : gen_vnode_slot(x, v, j)),
             LAMBDA x : gen_vnode_args_write(x, v, i, j + 1))
    ELSE IF i > j
    THEN Try(write_str(g, ", null"),
             LAMBDA x : gen_vnode_args_write(x, v, i, j + 1))
    ELSE g

gen_vnode_call_args(g, v) ==
    gen_vnode_args_write(g, v, gen_vnode_args_last(vnode_conds(v), 0, 0), 0)

gen_vnode_real(g, v) ==
    LET call_helper ==
            IF v.is_block
            THEN IF v.is_component THEN "CreateBlock" ELSE "CreateElementBlock"
            ELSE IF v.is_component THEN "CreateVnode" ELSE "CreateElementVnode"
    IN Try(Try(Try(write_helper(g, call_helper),
                   LAMBDA x : write_str(x, "(")),
               LAMBDA x : gen_vnode_call_args(x, v)),
           LAMBDA x : write_str(x, ")"))

\* gen_vnode_with_block passing true to openBlock when tracking is enabled
gen_vnode_with_block_tracking(g, v) ==
    IF ~v.is_block THEN gen_vnode_real(g, v)
    ELSE Try(Try(Try(Try(Try(Try(write_str(g, "("),
                                 LAMBDA x : write_helper(x, "OpenBlock")),
                             LAMBDA x : write_str(x, "(")),
                         LAMBDA x : IF ~v.disable_tracking
                                    THEN write_str(x, "true") ELSE x),
                     LAMBDA x : write_str(x, "), ")),
                 LAMBDA x : gen_vnode_real(x, v)),
             LAMBDA x : write_str(x, ")"))

gen_vnode_with_block(g, v) ==
    IF ~v.is_block THEN gen_vnode_real(g, v)
    ELSE Try(Try(Try(Try(Try(Try(write_str(g, "("),
                                 LAMBDA x : write_helper(x, "OpenBlock")),
                             LAMBDA x : write_str(x, "(")),
                         LAMBDA x : IF v.disable_tracking
                                    THEN write_str(x, "true") ELSE x),
                     LAMBDA x : write_str(x, "), ")),
                 LAMBDA x : gen_vnode_real(x, v)),
             LAMBDA x : write_str(x, ")"))

gen_vnode_with_dir(g, v) ==
    IF v.directives = <<>> THEN gen_vnode_with_block(g, v)
    ELSE LET dir_arr == runtime_dirs_to_js_arr(v.directives)
         IN Try(Try(Try(Try(Try(write_helper(g, "WithDirectives"),
                                LAMBDA x : write_str(x, "(")),
                            LAMBDA x : gen_vnode_with_block(
                                          x, [v EXCEPT !.directives = <<>>])),
                        LAMBDA x : write_str(x, ", ")),
                    LAMBDA x : IF Panics(dir_arr) THEN Abort(x, dir_arr.why)
                               ELSE generate_js_expr(x, dir_arr)),
                LAMBDA x : write_str(x, ")"))

generate_vnode(g, v) == gen_vnode_with_dir(g, v)

generate_ir(g, node) ==
    CASE node.type = "TextCall" -> generate_text(g, node.texts)
      [] node.type = "VNodeCall" -> generate_vnode(g, node.v)
      [] OTHER -> Abort(g, "todo: " \o node.type)

\* the node generate_root hands to generate_ir for a body that is not empty
root_ir(r) ==
    IF Len(r.body) = 1 THEN r.body[1]
    ELSE VNodeCall([VNodeIR_default EXCEPT !.tag = Symbol("Fragment"),
                                           !.children = r.body])

\* generate_root emitting the last child alone when there are several
generate_root_last_child(g, r) ==
    Try(Try(generate_prologue(g, r),
            LAMBDA x : IF r.body = <<>> THEN write_str(x, "null")
                       ELSE generate_ir(x, r.body[Len(r.body)])),
        generate_epilogue)

\* generate_root going on after a failed prologue
generate_root_unchecked(g, r) ==
    Try(CHOOSE y \in {IF r.body = <<>> THEN write_str(x, "null")
                      ELSE generate_ir(x, root_ir(r))
                      : x \in {generate_prologue(g, r)}} : TRUE,
        generate_epilogue)

generate_root(g, r) ==
    Try(Try(generate_prologue(g, r),
            LAMBDA x : IF r.body = <<>> THEN write_str(x, "null")
                       ELSE generate_ir(x, root_ir(r))),
        generate_epilogue)

\* CodeGenerator::generate: the io::Result it returns
generate(g, r) == generate_root(g, r)

-----------------------------------------------------------------------------
(* One generation *)

T_hello == <<"h", "e", "l", "l", "o", " ", "w", "o", "r", "l", "d">>
T_p == <<"p">>
T_id == <<"i", "d">>

Hello == TextCall(<<StrLit(VStr_raw(T_hello))>>)
TwoTexts ==
    TextCall(<<Call("ToDisplayString", <<simple(prefix_ctx(VStr_raw(T_a)))>>),
               StrLit(VStr_raw(T_b))>>)
NoTexts == TextCall(<<>>)
LeafVNode == VNodeCall([VNodeIR_default EXCEPT !.tag = StrLit(VStr_raw(T_b))])

VNodes ==
    [tag : {StrLit(VStr_raw(T_p))},
     props : {NoneJs, simple(VStr_raw(T_b))},
     children : {<<>>, <<Hello>>, <<Hello, LeafVNode>>},
     directives : {<<>>},
     patch_flag : {0, 1},
     dynamic_props : {<<>>, <<VStr_raw(T_id)>>},
     is_component : BOOLEAN, is_block : BOOLEAN, disable_tracking : BOOLEAN]

Stubs == {Stub("If"), Stub("For"), Stub("RenderSlotCall"), Stub("VSlotUse"),
          Stub("CommentCall"), Stub("AlterableSlot")}

GenNodes ==
    {Hello, TwoTexts, NoTexts}
    \cup {VNodeCall(v) : v \in VNodes}
    \cup {VNodeCall([VNodeIR_default EXCEPT
                        !.tag = StrLit(VStr_raw(T_p)),
                        !.props = Props(<<<<StrLit(VStr_raw(T_test)),
                                            simple(VStr_raw(T_a))>>>>)]),
          VNodeCall([VNodeIR_default EXCEPT
                        !.tag = StrLit(VStr_raw(T_p)),
                        !.directives = <<"v-show">>])}
    \cup Stubs

SmallNodes == {Hello, TwoTexts, LeafVNode, Stub("CommentCall")}

Roots ==
    [body : {<<>>} \cup {<<n>> : n \in GenNodes}
            \cup UNION {[1..k -> SmallNodes] : k \in 2..MaxBody}]

NewWriter(fail_at, sink_error) ==
    [buf |-> <<>>, indent_level |-> 0, closing_brackets |-> 0,
     attempts |-> 0, fail_at |-> fail_at, sink_error |-> sink_error,
     err |-> "", panic |-> ""]

InitG ==
    /\ root \in Roots
    /\ \E f \in 0..MaxFailAt, e \in {"BrokenPipe", "StorageFull"} :
          gen = NewWriter(f, e)
    /\ gen_result = [kind |-> "Pending"]
    /\ option = [prefix_identifier |-> FALSE, inline |-> FALSE]
    /\ binding_metadata = <<>>
    /\ IdleT
    /\ IdleR

Generate ==
    /\ gen_result.kind = "Pending"
    /\ gen' = generate(gen, root)
    /\ gen_result' =
          IF gen'.panic # "" THEN [kind |-> "Panic", why |-> gen'.panic]
          ELSE IF gen'.err # "" THEN [kind |-> "Err", error |-> gen'.err]
          ELSE [kind |-> "Ok"]
    /\ UNCHANGED <<tvars, rvars, root>>

NextG == Generate

SpecG == InitG /\ [][NextG]_vars

-----------------------------------------------------------------------------
(* Claims about the code generator *)

\* a sink that never fails
Fresh == NewWriter(0, "")
ChunksOf(node) == generate_ir(Fresh, node).buf

Prologue ==
    <<"return ", "function render(_ctx, _cache) {", "\n", "  ",
      "with (_ctx) {", "\n", "  ", "  ", "return ">>
Epilogue == <<"\n", "  ", "}", "\n", "}">>

\* the writes between the ( and the ) of the creation call of the only child
ArgChunks ==
    LET v == root.body[1].v
        before == Len(Prologue) + 3
                  + (IF v.is_block
                     THEN (IF v.disable_tracking THEN 6 ELSE 5) ELSE 0)
        after == Len(Epilogue) + 1 + (IF v.is_block THEN 1 ELSE 0)
    IN SubSeq(gen.buf, before + 1, Len(gen.buf) - after)

Present(v) ==
    <<TRUE, v.props # NoneJs, v.children # <<>>, v.patch_flag # 0,
      v.dynamic_props # <<>>>>

\* the highest 1-based index of a present slot
Highest(v) == CHOOSE h \in 1..5 :
                 Present(v)[h] /\ \A k \in (h + 1)..5 : ~Present(v)[k]

\* the elided argument list: slots 1..Highest, null for the absent ones
ElidedArgs(v) ==
    Flat([j \in 1..Highest(v) |->
            IF Present(v)[j]
            THEN (IF j > 1 THEN <<", ">> ELSE <<>>)
                 \o gen_vnode_slot(Fresh, v, j - 1).buf
            ELSE <<", null">>])

OnlyVNode ==
    /\ gen_result.kind = "Ok"
    /\ Len(root.body) = 1
    /\ root.body[1].type = "VNodeCall"

\* C1: the argument list of a vnode creation call has as many positional
\* slots as the highest 1-based index of a present slot; an absent slot is
\* the literal null only below that index; nothing follows it.
C1_TrailingArgumentElision ==
    OnlyVNode => ArgChunks = ElidedArgs(root.body[1].v)

\* props absent, children present, patch flag absent, dynamic props present
C1_Witness ==
    /\ OnlyVNode
    /\ Present(root.body[1].v) = <<TRUE, FALSE, TRUE, FALSE, TRUE>>
    /\ ArgChunks = <<"\"p\"", ", null", ", ", "\"hello world\"", ", null",
                     ", ", "[", "\"id\"", "]">>

\* what follows "return ": null, the only child, or one Fragment vnode
RootChunks ==
    IF root.body = <<>> THEN <<"null">>
    ELSE IF Len(root.body) = 1 THEN ChunksOf(root.body[1])
    ELSE <<"_", "CreateElementVnode", "(", "_", "Fragment", ", null", ", ">>
         \o Flat([n \in 1..Len(root.body) |-> ChunksOf(root.body[n])])
         \o <<")">>

\* C8 as stated: function render(_ctx, _cache) {, with (_ctx) {, then
\* return <root>; with its semicolon, then the closing braces.
C8_ReturnRootSemicolon ==
    gen_result.kind = "Ok" =>
        gen.buf = Prologue \o RootChunks \o <<";">> \o Epilogue

\* C8 amended: generate_root emits function render(_ctx, _cache) {, then
\* with (_ctx) {, then return <root> with no semicolon after it, then the
\* closing braces; <root> is null for an empty body, the generated form of
\* the only child, and otherwise one Fragment-tagged vnode creation call
\* that holds all children in their original order.
C8_RootEmission ==
    gen_result.kind = "Ok" => gen.buf = Prologue \o RootChunks \o Epilogue

\* three different children under one Fragment
C8_Witness ==
    /\ gen_result.kind = "Ok"
    /\ root.body = <<TwoTexts, Hello, LeafVNode>>

\* the failing write was attempted
SinkFailed == gen.fail_at > 0 /\ gen.attempts >= gen.fail_at

\* C10: if a write to the sink fails, generate returns that error, the
\* failing write is the last one attempted, and what was written before it
\* stays written.
C10_WriteFailureAborts ==
    gen_result.kind # "Pending" =>
        /\ SinkFailed =>
              /\ gen_result = [kind |-> "Err", error |-> gen.sink_error]
              /\ gen.attempts = gen.fail_at
              /\ gen.buf = SubSeq(generate_root(Fresh, root).buf, 1,
                                  gen.fail_at - 1)
        /\ gen_result.kind = "Err" => SinkFailed

\* the sink failed in the middle of the emission of a vnode
C10_Witness ==
    /\ gen_result.kind = "Err"
    /\ Len(root.body) = 1
    /\ root.body[1].type = "VNodeCall"
    /\ gen.fail_at > Len(Prologue) + 3
    /\ gen.fail_at < Len(generate_root(Fresh, root).buf) - Len(Epilogue)

-----------------------------------------------------------------------------
(* Claims about braces and indentation *)

\* how many of the writes that reached the sink are in S
Count(buf, S) == Cardinality({n \in 1..Len(buf) : buf[n] \in S})
Opened == Count(gen.buf, {"function render(_ctx, _cache) {", "with (_ctx) {"})
Closed == Count(gen.buf, {"}"})
Returned == gen_result.kind \notin {"Idle", "Pending"}

\* C12: however generation ends, closing_brackets counts the braces the
\* prologue wrote and indent_level went up with it, one level per brace and
\* down one level per closing brace; a successful generate_root wrote
\* exactly closing_brackets closing braces, the innermost (deepest
\* indentation) first, and left indent_level at 0; the debug assertion of
\* generate_epilogue never fails and indent_level never underflows.
C12_BraceAccounting ==
    Returned =>
        /\ gen.closing_brackets = Opened
        /\ gen.closing_brackets - gen.indent_level \in {Closed, Closed + 1}
        /\ gen.panic \notin {"attempt to subtract with overflow",
                             "debug_assert_eq indent_level"}
        /\ gen_result.kind = "Ok" =>
              /\ Closed = gen.closing_brackets
              /\ gen.indent_level = 0
              /\ SubSeq(gen.buf, Len(gen.buf) - 4, Len(gen.buf))
                    = <<"\n", "  ", "}", "\n", "}">>

\* a whole render function: two braces opened, two closed, level back at 0
C12_Witness ==
    /\ gen_result.kind = "Ok"
    /\ root.body # <<>>
    /\ Opened = 2 /\ Closed = 2
    /\ gen.closing_brackets = 2 /\ gen.indent_level = 0

-----------------------------------------------------------------------------
(* Claims about the vnode call *)

\* the creation helper of the matrix block x component
CreationHelper(v) ==
    CASE v.is_block /\ v.is_component -> "CreateBlock"
      [] v.is_block /\ ~v.is_component -> "CreateElementBlock"
      [] ~v.is_block /\ v.is_component -> "CreateVnode"
      [] ~v.is_block /\ ~v.is_component -> "CreateElementVnode"

\* _helper(args)
CreationCall(v) ==
    <<"_", CreationHelper(v), "(">> \o ElidedArgs(v) \o <<")">>

\* C13: for every combination of is_block, is_component and
\* disable_tracking, a block vnode is written as
\* (_openBlock(<true iff disable_tracking>), <creation call>), the openBlock
\* call first, a vnode that is no block as the bare creation call with no
\* openBlock, and the creation helper is the one of the matrix.
C13_VNodeEmission ==
    OnlyVNode =>
        LET v == root.body[1].v
            emitted == SubSeq(gen.buf, Len(Prologue) + 1,
                              Len(gen.buf) - Len(Epilogue))
        IN /\ v.is_block =>
                emitted = <<"(", "_", "OpenBlock", "(">>
                          \o (IF v.disable_tracking THEN <<"true">> ELSE <<>>)
                          \o <<"), ">> \o CreationCall(v) \o <<")">>
           /\ ~v.is_block =>
                /\ emitted = CreationCall(v)
                /\ Count(gen.buf, {"OpenBlock"}) = 0

\* a component block with tracking disabled: (_openBlock(true), _CreateBlock(
C13_Witness ==
    /\ OnlyVNode
    /\ root.body[1].v.is_block
    /\ root.body[1].v.is_component
    /\ root.body[1].v.disable_tracking
    /\ SubSeq(gen.buf, Len(Prologue) + 1, Len(Prologue) + 9)
         = <<"(", "_", "OpenBlock", "(", "true", "), ", "_", "CreateBlock", "(">>

-----------------------------------------------------------------------------
(* Claims about the static level *)

\* the levels of the simple expressions inside the result of item i
LevelsOf(i) == {x.level : x \in Simples(ir[i].e)}

\* C14: the fast path gives a literal keyword that is not in scope the level
\* CanStringify and another allow-listed global that is not in scope the
\* level CanHoist, leaving their text as it was; a genuine binding reference
\* gets CanSkipPatch when its binding is SetupConst and keeps its prior
\* level otherwise; a name that is in scope keeps its level.
C14_FastPathLevels ==
    \A i \in 1..Len(scopeAt) :
        FastItem(i) =>
            LET e0 == ir0[i].e
                raw == e0.v.raw
            IN /\ Completed(i)
               /\ raw \in scopeAt[i] => ir[i].e = e0
               /\ (raw \notin scopeAt[i] /\ is_literal(raw)) =>
                     ir[i].e = [e0 EXCEPT !.level = CanStringify]
               /\ (raw \notin scopeAt[i] /\ ~is_literal(raw)
                     /\ is_global_allow_listed(raw)) =>
                     ir[i].e = [e0 EXCEPT !.level = CanHoist]
               /\ Genuine(i) =>
                     LevelsOf(i) = {IF bindings_get(raw) = "SetupConst"
                                    THEN CanSkipPatch ELSE e0.level}

\* a SetupConst binding relaxed to CanSkipPatch next to a Props binding that
\* kept its level, in one walk
C14_Witness ==
    \E i, j \in 1..Len(scopeAt) :
        /\ Genuine(i) /\ Completed(i)
        /\ bindings_get(ir0[i].e.v.raw) = "SetupConst"
        /\ LevelsOf(i) = {CanSkipPatch}
        /\ Genuine(j) /\ Completed(j)
        /\ bindings_get(ir0[j].e.v.raw) = "Props"
        /\ LevelsOf(j) = {NotStatic}

\* the allow-listed global Math declared as a loop parameter and used in
\* the body: in scope, so its level stayed NotStatic
GlobalShadowedKeepsLevel ==
    \E i \in 1..Len(scopeAt) :
        /\ FastItem(i) /\ Completed(i)
        /\ ir0[i].e.v.raw = T_Math
        /\ T_Math \in scopeAt[i]
        /\ ir[i].e.level = NotStatic

====
